---- MODULE Spec2Model ----
(***************************************************************************)
(* Model of the AI inbox automation suite: the follow-up scheduler         *)
(* (src/agents/scheduler.py), the vector store contract                    *)
(* (src/core/vector_store.py) and the per-email orchestration pipeline     *)
(* (src/main.py).                                                          *)
(*                                                                         *)
(* Time is counted in clock ticks; a day is TicksPerDay ticks.  An ISO     *)
(* timestamp string is modelled as the pair <<date, time-of-day>> that the *)
(* string spells out, so that formatting and parsing are real conversions. *)
(***************************************************************************)
EXTENDS Integers, Sequences, FiniteSets, TLC

\* ------------------------------------------------------------------ bounds
TicksPerDay == 2
MaxNow == 4
SchedMaxNow == 2
MaxDrift == 1
MaxSaveFailures == 1
StorageMaxNow == 1
MaxIndexed == 4
MaxResults == 4
MaxParts == 2
MaxPasses == 2

\* --------------------------------------------------------- program constants
\* settings.follow_up_days
follow_up_days == 3

VARIABLES
    now,            \* the wall clock read by datetime.now()
    follow_ups,     \* SchedulerAgent.follow_ups: dict email_id -> record, insertion ordered
    disk,           \* the follow-up storage file: <<store>> when it holds the JSON of a
                    \* store, <<>> when it is missing or does not parse
    save_faults,    \* number of storage write failures the file system still has in store
    reply_approval_required,  \* settings.reply_approval_required
    unread,         \* ids of the messages that carry the UNREAD label at the mail provider
    outbox,         \* messages the mail provider accepted from send_email, in order
    vstore,         \* the vector collection: dict email_id -> embedding, document, metadata
    passes,         \* number of _process_single_email passes started so far
    pc,             \* position of the orchestrator
    emails,         \* process_emails: ids of the fetched batch
    cur,            \* process_emails: index of the email being processed
    started,        \* ids for which _process_single_email was entered in this run
    failed,         \* ids whose pass raised and was logged by the except clause in this run
    stages,         \* _process_single_email: the calls made so far by this pass
    classification, \* _process_single_email locals; None while unset
    reply_data,
    refined_reply,
    reply_sent,
    last_search,    \* search_similar_responses: the arguments of the latest call
    similar_responses,  \* and the list it returned
    payload,        \* _get_email_details: message["payload"] of the message read
    body,           \* and the body extracted from it; None while unset
    due_follow_ups  \* check_follow_ups: the due records its loop has still to show

schedVars == <<now, follow_ups, disk, save_faults>>

mailVars == <<unread, outbox, vstore>>

runVars == <<reply_approval_required, passes, pc, emails, cur, started, failed>>

passVars == <<stages, classification, reply_data, refined_reply, reply_sent>>

callVars == <<last_search, similar_responses, payload, body, due_follow_ups>>

vars == <<schedVars, mailVars, runVars, passVars, callVars>>

\* ------------------------------------------------------------ inbound mail
EmailIds == {"e1", "e2"}

Email(id) ==
    [id |-> id,
     thread_id |-> IF id = "e1" THEN "t1" ELSE "t2",
     subject |-> IF id = "e1" THEN "invoice" ELSE "meeting",
     from |-> IF id = "e1" THEN "ann" ELSE "bob",
     body |-> IF id = "e1" THEN "pay" ELSE "meet"]

Emails == {Email(id) : id \in EmailIds}

\* ------------------------------------------------------------- timestamps
timedelta(days) == days * TicksPerDay

isoformat(t) == <<t \div TicksPerDay, t % TicksPerDay>>

fromisoformat(s) == s[1] * TicksPerDay + s[2]

\* --------------------------------------------------- insertion-ordered dict
\* A Python dict is a sequence of <<key, value>> entries in insertion order.
DictKeys(d) == {d[i][1] : i \in 1..Len(d)}

DictHas(d, k) == k \in DictKeys(d)

DictGet(d, k) == d[CHOOSE i \in 1..Len(d) : d[i][1] = k][2]

\* a store that appends an entry on every assignment
DictSet_Append(d, k, v) == Append(d, <<k, v>>)

\* d[k] = v : an existing key keeps its position, a new key is appended
DictSet(d, k, v) ==
    IF DictHas(d, k)
    THEN [i \in 1..Len(d) |-> IF d[i][1] = k THEN <<k, v>> ELSE d[i]]
    ELSE Append(d, <<k, v>>)

\* del d[k]
DictDel(d, k) == SelectSeq(d, LAMBDA e : e[1] # k)

\* d.values(), in insertion order
DictValues(d) == [i \in 1..Len(d) |-> d[i][2]]

\* ---------------------------------------------------------------- scheduler
\* an omitted optional argument
None == <<>>

\* how a call of _save_follow_ups can end: the file is rewritten; open() raises
\* and the file is left as it was; or open(path, "w") has truncated the file
\* and json.dump or the closing flush raises
SaveResults == {"written", "unopened", "truncated"}

\* _save_follow_ups: the whole dict is rewritten; a failure is logged and
\* swallowed
SavedDisk(saved, store) ==
    CASE saved = "written" -> <<store>>
      [] saved = "unopened" -> disk
      [] saved = "truncated" -> <<>>

SaveOutcomes == IF save_faults > 0 THEN SaveResults ELSE {"written"}

\* _load_follow_ups: the parsed file, or the empty dict when the file is
\* missing, cannot be read or does not parse
_load_follow_ups(file, readable) ==
    IF file # <<>> /\ readable THEN file[1] ELSE <<>>

\* the record built at scheduler.py:54-61; t0 is the clock at line 52 and
\* t1 the clock at line 59
NewRecord(email_id, email_data, days_until, t0, t1) ==
    [email_id |-> email_id,
     subject |-> IF "subject" \in DOMAIN email_data THEN email_data.subject ELSE "",
     from |-> IF "from" \in DOMAIN email_data THEN email_data.from ELSE "",
     follow_up_date |-> isoformat(t0 + timedelta(days_until)),
     created_at |-> isoformat(t1),
     status |-> "pending"]

\* scheduling that takes the record back when the save fails
schedule_follow_up_Rollback(email_id, email_data, days_until, drift, saved, limit) ==
    LET t0 == now
        t1 == now + drift
        rec == NewRecord(email_id, email_data,
                         IF days_until = None THEN follow_up_days ELSE days_until[1],
                         t0, t1)
        store == DictSet(follow_ups, email_id, rec)
    IN  /\ t1 <= limit
        /\ now' = t1
        /\ follow_ups' = IF saved = "written" THEN store ELSE follow_ups
        /\ disk' = SavedDisk(saved, store)
        /\ save_faults' = IF saved = "written" THEN save_faults ELSE save_faults - 1

\* scheduling that updates the record an id already has instead of replacing it
schedule_follow_up_Update(email_id, email_data, days_until, drift, saved, limit) ==
    LET t0 == now
        t1 == now + drift
        rec == NewRecord(email_id, email_data,
                         IF days_until = None THEN follow_up_days ELSE days_until[1],
                         t0, t1)
        old == IF DictHas(follow_ups, email_id) THEN DictGet(follow_ups, email_id) ELSE rec
        store == DictSet(follow_ups, email_id,
                         [f \in DOMAIN old |-> IF f \in DOMAIN rec THEN rec[f] ELSE old[f]])
    IN  /\ t1 <= limit
        /\ now' = t1
        /\ follow_ups' = store
        /\ disk' = SavedDisk(saved, store)
        /\ save_faults' = IF saved = "written" THEN save_faults ELSE save_faults - 1

schedule_follow_up(email_id, email_data, days_until, drift, saved, limit) ==
    LET t0 == now
        t1 == now + drift
        rec == NewRecord(email_id, email_data,
                         IF days_until = None THEN follow_up_days ELSE days_until[1],
                         t0, t1)
        store == DictSet(follow_ups, email_id, rec)
    IN  /\ t1 <= limit
        /\ now' = t1
        /\ follow_ups' = store
        /\ disk' = SavedDisk(saved, store)
        /\ save_faults' = IF saved = "written" THEN save_faults ELSE save_faults - 1

\* the scan without the status test
RECURSIVE DueScan_IgnoresStatus(_, _, _)
DueScan_IgnoresStatus(d, n, t) ==
    IF n = 0 THEN <<>>
    ELSE LET follow_up == d[n][2]
             rest == DueScan_IgnoresStatus(d, n - 1, t)
         IN  IF fromisoformat(follow_up.follow_up_date) <= t
             THEN Append(rest, follow_up)
             ELSE rest

\* the scan with a strict comparison of the due date
RECURSIVE DueScan_Strict(_, _, _)
DueScan_Strict(d, n, t) ==
    IF n = 0 THEN <<>>
    ELSE LET follow_up == d[n][2]
             rest == DueScan_Strict(d, n - 1, t)
         IN  IF follow_up.status = "pending"
             THEN IF fromisoformat(follow_up.follow_up_date) < t
                  THEN Append(rest, follow_up)
                  ELSE rest
             ELSE rest

\* get_due_follow_ups: the scan of scheduler.py:79-83 over the first n items
RECURSIVE DueScan(_, _, _)
DueScan(d, n, t) ==
    IF n = 0 THEN <<>>
    ELSE LET follow_up == d[n][2]
             rest == DueScan(d, n - 1, t)
         IN  IF follow_up.status = "pending"
             THEN IF fromisoformat(follow_up.follow_up_date) <= t
                  THEN Append(rest, follow_up)
                  ELSE rest
             ELSE rest

get_due_follow_ups(d, t) == DueScan(d, Len(d), t)

\* completing without the completed_at stamp
mark_completed_NoStamp(email_id, saved) ==
    IF DictHas(follow_ups, email_id)
    THEN LET old == DictGet(follow_ups, email_id)
             rec == [old EXCEPT !.status = "completed"]
             store == DictSet(follow_ups, email_id, rec)
         IN  /\ follow_ups' = store
             /\ disk' = SavedDisk(saved, store)
             /\ save_faults' = IF saved = "written" THEN save_faults ELSE save_faults - 1
             /\ UNCHANGED now
    ELSE /\ saved = "written"
         /\ UNCHANGED <<now, follow_ups, disk, save_faults>>

mark_completed(email_id, saved) ==
    IF DictHas(follow_ups, email_id)
    THEN LET old == DictGet(follow_ups, email_id)
             rec == [f \in DOMAIN old \cup {"completed_at"} |->
                       IF f = "status" THEN "completed"
                       ELSE IF f = "completed_at" THEN isoformat(now)
                       ELSE old[f]]
             store == DictSet(follow_ups, email_id, rec)
         IN  /\ follow_ups' = store
             /\ disk' = SavedDisk(saved, store)
             /\ save_faults' = IF saved = "written" THEN save_faults ELSE save_faults - 1
             /\ UNCHANGED now
    ELSE /\ saved = "written"
         /\ UNCHANGED <<now, follow_ups, disk, save_faults>>

\* cancelling by marking the record instead of deleting it
cancel_follow_up_Soft(email_id, saved) ==
    IF DictHas(follow_ups, email_id)
    THEN LET old == DictGet(follow_ups, email_id)
             store == DictSet(follow_ups, email_id, [old EXCEPT !.status = "cancelled"])
         IN  /\ follow_ups' = store
             /\ disk' = SavedDisk(saved, store)
             /\ save_faults' = IF saved = "written" THEN save_faults ELSE save_faults - 1
             /\ UNCHANGED now
    ELSE /\ saved = "written"
         /\ UNCHANGED <<now, follow_ups, disk, save_faults>>

cancel_follow_up(email_id, saved) ==
    IF DictHas(follow_ups, email_id)
    THEN LET store == DictDel(follow_ups, email_id)
         IN  /\ follow_ups' = store
             /\ disk' = SavedDisk(saved, store)
             /\ save_faults' = IF saved = "written" THEN save_faults ELSE save_faults - 1
             /\ UNCHANGED now
    ELSE /\ saved = "written"
         /\ UNCHANGED <<now, follow_ups, disk, save_faults>>

\* get_follow_up_stats; completion_rate is kept as the exact fraction
\* <<numerator, denominator>> of the float it computes
CountStatus(d, s) == Cardinality({i \in 1..Len(d) : d[i][2].status = s})

\* the rate as a ratio, without the factor 100
get_follow_up_stats_Ratio(d) ==
    LET total == Len(d)
        pending == CountStatus(d, "pending")
        completed == CountStatus(d, "completed")
    IN  [total |-> total, pending |-> pending, completed |-> completed,
         completion_rate |-> IF total > 0 THEN <<completed, total>> ELSE <<0, 1>>]

get_follow_up_stats(d) ==
    LET total == Len(d)
        pending == CountStatus(d, "pending")
        completed == CountStatus(d, "completed")
    IN  [total |-> total, pending |-> pending, completed |-> completed,
         completion_rate |-> IF total > 0 THEN <<completed * 100, total>> ELSE <<0, 1>>]

\* the clock advances between calls
Tick(limit) ==
    /\ now < limit
    /\ now' = now + 1
    /\ UNCHANGED <<follow_ups, disk, save_faults>>

\* the days_until argument: None, or <<n>> for the integer n
DaysUntil == {None, <<-1>>, <<0>>, <<1>>}

Init ==
    /\ now = 0
    /\ follow_ups = <<>>
    /\ disk = <<>>
    /\ save_faults = MaxSaveFailures
    /\ reply_approval_required \in BOOLEAN
    /\ unread = EmailIds
    /\ outbox = <<>>
    /\ vstore = <<>>
    /\ passes = 0
    /\ pc = "menu"
    /\ emails = <<>>
    /\ cur = 0
    /\ started = <<>>
    /\ failed = <<>>
    /\ stages = <<>>
    /\ classification = None
    /\ reply_data = None
    /\ refined_reply = None
    /\ reply_sent = FALSE
    /\ last_search = None
    /\ similar_responses = <<>>
    /\ payload = None
    /\ body = None
    /\ due_follow_ups = <<>>

\* the scheduler on its own, driven through its public methods, with a
\* storage file that takes every write
SchedInit ==
    /\ now = 0
    /\ follow_ups = <<>>
    /\ disk = <<>>
    /\ save_faults = 0
    /\ reply_approval_required = TRUE
    /\ unread = EmailIds
    /\ outbox = <<>>
    /\ vstore = <<>>
    /\ passes = 0
    /\ pc = "menu"
    /\ emails = <<>>
    /\ cur = 0
    /\ started = <<>>
    /\ failed = <<>>
    /\ stages = <<>>
    /\ classification = None
    /\ reply_data = None
    /\ refined_reply = None
    /\ reply_sent = FALSE
    /\ last_search = None
    /\ similar_responses = <<>>
    /\ payload = None
    /\ body = None
    /\ due_follow_ups = <<>>

ScheduleCall ==
    /\ UNCHANGED <<mailVars, runVars, passVars, callVars>>
    /\ \E e \in Emails, days \in DaysUntil, drift \in 0..MaxDrift, saved \in SaveOutcomes :
        schedule_follow_up(e.id, e, days, drift, saved, SchedMaxNow)

CompleteCall ==
    /\ UNCHANGED <<mailVars, runVars, passVars, callVars>>
    /\ \E id \in EmailIds, saved \in SaveOutcomes : mark_completed(id, saved)

CancelCall ==
    /\ UNCHANGED <<mailVars, runVars, passVars, callVars>>
    /\ \E id \in EmailIds, saved \in SaveOutcomes : cancel_follow_up(id, saved)

SchedTick == Tick(SchedMaxNow) /\ UNCHANGED <<mailVars, runVars, passVars, callVars>>

SchedNext == ScheduleCall \/ CompleteCall \/ CancelCall \/ SchedTick

SpecSched == SchedInit /\ [][SchedNext]_vars

\* the follow-up scenario: one follow-up scheduled with the default delay when
\* the clock reads 0, then time passes and the user completes it
ScenarioEnd == (follow_up_days + 1) * TicksPerDay - 1

ScenarioSchedule ==
    /\ now = 0
    /\ follow_ups = <<>>
    /\ UNCHANGED <<mailVars, runVars, passVars, callVars>>
    /\ \E e \in Emails, drift \in 0..MaxDrift, saved \in SaveOutcomes :
        schedule_follow_up(e.id, e, None, drift, saved, ScenarioEnd)

ScenarioTick == Tick(ScenarioEnd) /\ UNCHANGED <<mailVars, runVars, passVars, callVars>>

ScenarioNext == ScenarioSchedule \/ ScenarioTick \/ CompleteCall

SpecScenario == SchedInit /\ [][ScenarioNext]_vars

\* the scheduler with a storage file whose writes can fail, and a process
\* that can be started again
StorageInit ==
    /\ now = 0
    /\ follow_ups = <<>>
    /\ disk = <<>>
    /\ save_faults = MaxSaveFailures
    /\ reply_approval_required = TRUE
    /\ unread = EmailIds
    /\ outbox = <<>>
    /\ vstore = <<>>
    /\ passes = 0
    /\ pc = "menu"
    /\ emails = <<>>
    /\ cur = 0
    /\ started = <<>>
    /\ failed = <<>>
    /\ stages = <<>>
    /\ classification = None
    /\ reply_data = None
    /\ refined_reply = None
    /\ reply_sent = FALSE
    /\ last_search = None
    /\ similar_responses = <<>>
    /\ payload = None
    /\ body = None
    /\ due_follow_ups = <<>>

\* SchedulerAgent.__init__ in a new process: the store is read from the file
Restart ==
    /\ \E readable \in BOOLEAN : follow_ups' = _load_follow_ups(disk, readable)
    /\ UNCHANGED <<now, disk, save_faults>>
    /\ UNCHANGED <<mailVars, runVars, passVars, callVars>>

\* the orchestrator's call, with the default delay
StorageSchedule ==
    /\ UNCHANGED <<mailVars, runVars, passVars, callVars>>
    /\ \E e \in Emails, drift \in 0..MaxDrift, saved \in SaveOutcomes :
        schedule_follow_up(e.id, e, None, drift, saved, StorageMaxNow)

StorageTick == Tick(StorageMaxNow) /\ UNCHANGED <<mailVars, runVars, passVars, callVars>>

StorageNext == StorageSchedule \/ CompleteCall \/ CancelCall \/ StorageTick \/ Restart

SpecStorage == StorageInit /\ [][StorageNext]_vars

\* ------------------------------------------------------------ vector store
\* SentenceTransformer.encode: a deterministic function of the text
encode(text) == <<"vec", text>>

\* an add that files the incoming text as the document
add_email_pair_StoresIncoming(store, email_id, incoming_text, response_text, metadata, ok) ==
    IF ok /\ ~DictHas(store, email_id)
    THEN DictSet(store, email_id,
                 [embedding |-> encode(incoming_text),
                  document |-> incoming_text,
                  metadata |-> metadata])
    ELSE store

\* add_email_pair: the collection keeps the entry an id already has; a failed
\* encode or add is logged and swallowed
add_email_pair(store, email_id, incoming_text, response_text, metadata, ok) ==
    IF ok /\ ~DictHas(store, email_id)
    THEN DictSet(store, email_id,
                 [embedding |-> encode(incoming_text),
                  document |-> response_text,
                  metadata |-> metadata])
    ELSE store

\* the texts that get indexed and the texts searched for
StoreTexts == {"pay", "meet"}

QueryTexts == StoreTexts \cup {"lunch"}

Responses == {"draft", "refined"}

\* where a text lies in the embedding space
TextPos(text) ==
    CASE text = "pay" -> 0
      [] text = "meet" -> 2
      [] text = "lunch" -> 5

\* the cosine distance of two embeddings, in tenths: 0 for equal ones
distance(u, v) ==
    IF TextPos(u[2]) >= TextPos(v[2])
    THEN TextPos(u[2]) - TextPos(v[2])
    ELSE TextPos(v[2]) - TextPos(u[2])

\* the rankings a nearest-neighbour query for n more entries may give: each
\* next entry is one of the closest among those not taken yet
RECURSIVE Nearest(_, _, _, _)
Nearest(store, emb, n, taken) ==
    LET rest == (1..Len(store)) \ taken
        closest == {i \in rest :
                      \A j \in rest : distance(store[i][2].embedding, emb)
                                         <= distance(store[j][2].embedding, emb)}
    IN  IF n <= 0 \/ rest = {}
        THEN {<<>>}
        ELSE UNION {{<<i>> \o r : r \in Nearest(store, emb, n - 1, taken \cup {i})} :
                      i \in closest}

\* a query that leaves the number of results to the collection's default
query_DefaultCount(store, query_embedding, n_results) ==
    Nearest(store, query_embedding, 10, {})

\* collection.query for one embedding and n_results >= 1: the positions of the
\* entries returned, closest first
query(store, query_embedding, n_results) ==
    Nearest(store, query_embedding, n_results, {})

\* what can go wrong in a search: nothing, encode raises, query raises
SearchFaults == {"none", "encode", "query"}

\* the collection rejects a number of results below 1
QueryRaises(n_results, fault) == fault = "query" \/ n_results < 1

\* the list built at vector_store.py:58-71 from the entries query returned
Hits(store, query_text, ranking) ==
    [i \in 1..Len(ranking) |->
       [response |-> store[ranking[i]][2].document,
        distance |-> distance(store[ranking[i]][2].embedding, encode(query_text)),
        metadata |-> store[ranking[i]][2].metadata]]

\* a search that hands back a placeholder hit when it fails
search_similar_responses_Placeholder(store, query_text, n_results, fault) ==
    IF fault = "encode" \/ QueryRaises(n_results, fault)
    THEN {<<[response |-> "", distance |-> 0, metadata |-> [subject |-> ""]]>>}
    ELSE {Hits(store, query_text, ranking) :
            ranking \in query(store, encode(query_text), n_results)}

\* search_similar_responses: the lists it can return; the empty list when
\* encode or query raises
search_similar_responses(store, query_text, n_results, fault) ==
    IF fault = "encode" \/ QueryRaises(n_results, fault)
    THEN {<<>>}
    ELSE {Hits(store, query_text, ranking) :
            ranking \in query(store, encode(query_text), n_results)}

\* the vector store on its own, driven through its two methods
StoreInit ==
    /\ now = 0
    /\ follow_ups = <<>>
    /\ disk = <<>>
    /\ save_faults = 0
    /\ reply_approval_required = TRUE
    /\ unread = EmailIds
    /\ outbox = <<>>
    /\ vstore = <<>>
    /\ passes = 0
    /\ pc = "menu"
    /\ emails = <<>>
    /\ cur = 0
    /\ started = <<>>
    /\ failed = <<>>
    /\ stages = <<>>
    /\ classification = None
    /\ reply_data = None
    /\ refined_reply = None
    /\ reply_sent = FALSE
    /\ last_search = None
    /\ similar_responses = <<>>
    /\ payload = None
    /\ body = None
    /\ due_follow_ups = <<>>

\* message ids are only compared with each other: an id not indexed yet is
\* taken to be the first one not in use
StoreIds == <<"e1", "e2", "e3", "e4", "e5", "e6">>

IndexCallWith(email_id, incoming_text, response_text, ok) ==
    /\ \/ DictHas(vstore, email_id)
       \/ Len(vstore) < MaxIndexed /\ email_id = StoreIds[Len(vstore) + 1]
    /\ last_search = None
    /\ vstore' = add_email_pair(vstore, email_id, incoming_text, response_text,
                                [subject |-> incoming_text], ok)
    /\ UNCHANGED <<last_search, similar_responses>>
    /\ UNCHANGED <<schedVars, unread, outbox, runVars, passVars, payload, body, due_follow_ups>>

IndexCall ==
    \E i \in 1..MaxIndexed, text \in StoreTexts, response \in Responses, ok \in BOOLEAN :
        IndexCallWith(StoreIds[i], text, response, ok)

\* one search at a time: there is a single thread
SearchCallWith(query_text, n_results, fault) ==
    /\ last_search = None
    /\ last_search' = <<[query_text |-> query_text, n_results |-> n_results,
                         fault |-> fault]>>
    /\ similar_responses' \in search_similar_responses(vstore, query_text, n_results, fault)
    /\ UNCHANGED <<schedVars, mailVars, runVars, passVars, payload, body, due_follow_ups>>

SearchCall ==
    \E query_text \in QueryTexts, n_results \in 0..MaxResults, fault \in SearchFaults :
        SearchCallWith(query_text, n_results, fault)

\* the retrieval of draft_reply: the three closest responses to the email body
DraftSearch ==
    \E e \in Emails, fault \in SearchFaults : SearchCallWith(e.body, 3, fault)

\* the caller is done with the list it was given
SearchReturn ==
    /\ last_search # None
    /\ last_search' = None
    /\ similar_responses' = <<>>
    /\ UNCHANGED <<schedVars, mailVars, runVars, passVars, payload, body, due_follow_ups>>

StoreNext == IndexCall \/ DraftSearch \/ SearchCall \/ SearchReturn

SpecStore == StoreInit /\ [][StoreNext]_vars

\* ------------------------------------------------------------ message bodies
\* base64.urlsafe_b64encode, as the mail provider applies it to part data
urlsafe_b64encode(text) == <<"b64", text>>

\* base64.urlsafe_b64decode(...).decode("utf-8")
urlsafe_b64decode(data) == data[2]

BodyTexts == {"hello", "<p>hi</p>"}

\* the body of a message part: with data, or without (an empty part, or an
\* attachment that is fetched separately)
PartBodies ==
    {[size |-> 0]} \cup {[size |-> 1, data |-> urlsafe_b64encode(t)] : t \in BodyTexts}

LeafTypes == {"text/plain", "text/html"}

LeafParts == [mimeType : LeafTypes, body : PartBodies]

\* a part that is itself multipart, with a plain-text part inside
NestedPart ==
    [mimeType |-> "multipart/alternative", body |-> [size |-> 0],
     parts |-> <<[mimeType |-> "text/plain",
                  body |-> [size |-> 1, data |-> urlsafe_b64encode("hello")]]>>]

Parts == LeafParts \cup {NestedPart}

\* message["payload"]: a multipart message with its parts, or a single part
Payloads ==
    {[mimeType |-> "multipart/mixed", body |-> [size |-> 0], parts |-> ps] :
        ps \in UNION {[1..n -> Parts] : n \in 1..MaxParts}}
    \cup LeafParts

\* the loop of gmail_client.py:117-123 from part i on
RECURSIVE ScanParts(_, _)
ScanParts(parts, i) ==
    IF i > Len(parts)
    THEN ""
    ELSE IF parts[i].mimeType = "text/plain"
         THEN IF "data" \in DOMAIN parts[i].body
              THEN urlsafe_b64decode(parts[i].body.data)
              ELSE ScanParts(parts, i + 1)
         ELSE ScanParts(parts, i + 1)

_get_email_body(p) ==
    IF "parts" \in DOMAIN p
    THEN ScanParts(p.parts, 1)
    ELSE IF "body" \in DOMAIN p
         THEN IF "data" \in DOMAIN p.body
              THEN urlsafe_b64decode(p.body.data)
              ELSE ""
         ELSE ""

\* the mail client reading messages, one after the other
BodyInit ==
    /\ now = 0
    /\ follow_ups = <<>>
    /\ disk = <<>>
    /\ save_faults = 0
    /\ reply_approval_required = TRUE
    /\ unread = EmailIds
    /\ outbox = <<>>
    /\ vstore = <<>>
    /\ passes = 0
    /\ pc = "menu"
    /\ emails = <<>>
    /\ cur = 0
    /\ started = <<>>
    /\ failed = <<>>
    /\ stages = <<>>
    /\ classification = None
    /\ reply_data = None
    /\ refined_reply = None
    /\ reply_sent = FALSE
    /\ last_search = None
    /\ similar_responses = <<>>
    /\ payload = None
    /\ body = None
    /\ due_follow_ups = <<>>

\* _get_email_details up to line 85: the message has been fetched
GetMessage ==
    /\ payload' \in {<<p>> : p \in Payloads}
    /\ body' = None
    /\ UNCHANGED <<schedVars, mailVars, runVars, passVars, last_search, similar_responses,
                   due_follow_ups>>

\* _get_email_details, line 96
ExtractBody ==
    /\ payload # None
    /\ body = None
    /\ body' = <<_get_email_body(payload[1])>>
    /\ UNCHANGED <<schedVars, mailVars, runVars, passVars, last_search, similar_responses,
                   payload, due_follow_ups>>

BodyNext == GetMessage \/ ExtractBody

SpecBody == BodyInit /\ [][BodyNext]_vars

\* --------------------------------------------------------------- classifier
\* the categories should_auto_respond tells apart, and the default one
Categories == {"promotional", "newsletter", "spam", "general"}

Priorities == {"high", "medium", "low"}

\* what classify_email can return: the model's answer, or the defaults
\* general/medium when the call fails
Classifications == [category : Categories, priority : Priorities]

\* answering whatever the priority
should_auto_respond_AnyPriority(c) ==
    IF c.category \in {"spam", "promotional", "newsletter"}
    THEN FALSE
    ELSE TRUE

should_auto_respond(c) ==
    IF c.category \in {"spam", "promotional", "newsletter"}
    THEN FALSE
    ELSE IF c.priority = "low"
         THEN FALSE
         ELSE TRUE

\* ------------------------------------------------------------ reply drafter
\* confidence is counted in tenths
FallbackReply(email) ==
    [subject |-> <<"Re: ", email.subject>>,
     body |-> "Thank you for your email. I will review and get back to you shortly.",
     tone |-> "professional",
     confidence |-> 3]

GeneratedReply(email, text) ==
    [subject |-> <<"Re: ", email.subject>>, body |-> text,
     tone |-> "friendly", confidence |-> 9]

\* a JSON answer without the fields the callers read
MalformedReply == [tone |-> "casual"]

WellFormed(r) == {"subject", "body"} \subseteq DOMAIN r

\* how a generation call can end: the model answers with the JSON object that
\* was asked for, with a JSON object that lacks fields, or with text that
\* json.loads rejects, or the API call itself raises
LLMOutcomes == {"json", "partial", "unparsable", "error"}

\* a call that raised instead of returning
Raised == <<>>

\* generate_json: <<the parsed object>>, or Raised
generate_json(outcome, answer) ==
    CASE outcome = "json" -> <<answer>>
      [] outcome = "partial" -> <<MalformedReply>>
      [] outcome = "unparsable" -> Raised
      [] outcome = "error" -> Raised

\* drafting that hands an empty object back when the call fails
draft_reply_NoFallback(email, outcome) ==
    LET result == generate_json(outcome, GeneratedReply(email, "draft"))
    IN  IF result # Raised THEN result[1] ELSE [confidence |-> 0]

\* draft_reply from its try statement on: the parsed answer as it came, or
\* the fallback when the call or the parse raised
draft_reply(email, outcome) ==
    LET result == generate_json(outcome, GeneratedReply(email, "draft"))
    IN  IF result # Raised THEN result[1] ELSE FallbackReply(email)

\* refining that falls back to the static acknowledgement
refine_reply_StaticFallback(original_draft, email, outcome) ==
    LET result == generate_json(outcome, GeneratedReply(email, "refined"))
    IN  IF result # Raised THEN result[1] ELSE FallbackReply(email)

\* refine_reply: the parsed answer as it came, or the original draft when the
\* call or the parse raised
refine_reply(original_draft, email, outcome) ==
    LET result == generate_json(outcome, GeneratedReply(email, "refined"))
    IN  IF result # Raised
        THEN result[1]
        ELSE [subject |-> <<"Re: ", email.subject>>, body |-> original_draft,
              tone |-> "professional", confidence |-> 5]

\* ------------------------------------------------------------- orchestrator
CurEmail == Email(emails[cur])

\* fetch_unread_emails: the unread messages whose details could be read, in
\* the order the provider lists them; the empty list when the listing fails
FetchResults(u) ==
    {s \in UNION {[1..n -> u] : n \in 0..Cardinality(u)} :
        \A i, j \in 1..Len(s) : i # j => s[i] # s[j]}

\* a follow-up for high priority only
NeedsFollowUp_HighOnly(sent, c) == ~sent /\ c.priority = "high"

\* main.py:122
NeedsFollowUp(sent, c) == ~sent /\ c.priority \in {"high", "medium"}

\* indexing whatever was drafted
ShouldIndex_Drafted(sent, reply) == reply # None

\* main.py:128
ShouldIndex(sent, reply) == sent /\ reply # None

\* main.py:132
IndexedDocument(reply, refined) == reply[1].body

\* a failed send tried again
AfterSend_Retry(success) == IF success THEN "schedule" ELSE "send"

\* where a pass goes once _send_reply has returned
AfterSend(success) == "schedule"

\* the for loop of process_emails moving on: the next email, or the end of
\* the run
LoopNext ==
    IF cur < Len(emails)
    THEN [pc |-> "classify", cur |-> cur + 1]
    ELSE [pc |-> "menu", cur |-> 0]

\* the exception leaving process_emails
Caught_Propagates == [pc |-> "crashed", cur |-> cur]

\* main.py:58-60: the exception is logged and the loop continues
Caught == LoopNext

ClearLocals ==
    /\ stages' = <<>>
    /\ classification' = None
    /\ reply_data' = None
    /\ refined_reply' = None
    /\ reply_sent' = FALSE

\* process_emails up to the first iteration of its loop
ProcessEmailsStart ==
    /\ pc = "menu"
    /\ passes < MaxPasses
    /\ \E batch \in FetchResults(unread) :
        /\ emails' = batch
        /\ IF batch = <<>>
           THEN pc' = "menu" /\ cur' = 0
           ELSE pc' = "classify" /\ cur' = 1
    /\ started' = <<>>
    /\ failed' = <<>>
    /\ UNCHANGED <<callVars, schedVars, mailVars, reply_approval_required, passes, passVars>>

\* Step 1: classify and print the headline
Classify ==
    /\ pc = "classify"
    /\ passes < MaxPasses
    /\ passes' = passes + 1
    /\ started' = Append(started, emails[cur])
    /\ stages' = <<"classify">>
    /\ \E c \in Classifications, printable \in BOOLEAN :
        /\ classification' = <<c>>
        /\ pc' = IF printable THEN "summarize" ELSE "except"
    /\ UNCHANGED <<callVars, schedVars, mailVars, reply_approval_required, emails, cur,
                   failed, reply_data, refined_reply, reply_sent>>

\* Steps 2 and 3: summarize and print the preview
Summarize ==
    /\ pc = "summarize"
    /\ stages' = Append(stages, "summarize")
    /\ \E printable \in BOOLEAN :
        pc' = IF printable THEN "respond" ELSE "except"
    /\ UNCHANGED <<callVars, schedVars, mailVars, reply_approval_required, passes, emails, cur,
                   started, failed, classification, reply_data, refined_reply, reply_sent>>

\* Steps 4 and 5: decide whether to respond, draft and print the reply;
\* prompt tells whether draft_reply could build its prompt from the summary,
\* outcome how its generation call ended
RespondWith(prompt, outcome) ==
    /\ pc = "respond"
    /\ IF should_auto_respond(classification[1])
       THEN /\ stages' = Append(stages, "draft")
            /\ IF prompt
               THEN LET r == draft_reply(CurEmail, outcome)
                    IN  /\ reply_data' = <<r>>
                        /\ pc' = IF ~(DOMAIN FallbackReply(CurEmail) \subseteq DOMAIN r)
                                 THEN "except"
                                 ELSE IF reply_approval_required
                                      THEN "approval"
                                      ELSE "send"
               ELSE /\ pc' = "except"
                    /\ UNCHANGED reply_data
       ELSE /\ pc' = "schedule"
            /\ UNCHANGED <<stages, reply_data>>
    /\ UNCHANGED <<callVars, schedVars, mailVars, reply_approval_required, passes, emails, cur,
                   started, failed, classification, refined_reply, reply_sent>>

Respond == \E prompt \in BOOLEAN, outcome \in LLMOutcomes : RespondWith(prompt, outcome)

\* the lines the user can type at the prompt, stripped
Choices == {"1", "2", "3", "4", "y", ""}

\* a prompt that takes anything but 1 and 2 for a skip
_get_human_approval_DefaultSkip(choice) ==
    CASE choice = "1" -> <<"approve">>
      [] choice = "2" -> <<"edit">>
      [] OTHER -> <<"skip">>

\* one round of the loop of _get_human_approval: <<the value returned>>, or
\* None when the loop prompts again
_get_human_approval(choice) ==
    CASE choice = "1" -> <<"approve">>
      [] choice = "2" -> <<"edit">>
      [] choice = "3" -> <<"skip">>
      [] OTHER -> None

\* Step 6: one line read by _get_human_approval and, once it returns, the
\* branch taken on its value
ApprovalWith(choice) ==
    /\ pc = "approval"
    /\ LET approval == _get_human_approval(choice)
       IN  IF approval = None
           THEN UNCHANGED <<pc, stages>>
           ELSE /\ stages' = Append(stages, "approval")
                /\ pc' = CASE approval[1] = "approve" -> "send"
                           [] approval[1] = "edit" -> "refine"
                           [] approval[1] = "skip" -> "schedule"
    /\ UNCHANGED <<callVars, schedVars, mailVars, reply_approval_required, passes, emails, cur,
                   started, failed, classification, reply_data, refined_reply, reply_sent>>

\* the input stream ends while the prompt waits: input() raises EOFError
ApprovalEOF ==
    /\ pc = "approval"
    /\ pc' = "except"
    /\ UNCHANGED <<callVars, schedVars, mailVars, reply_approval_required, passes, emails, cur,
                   started, failed, stages, classification, reply_data, refined_reply,
                   reply_sent>>

Approval == ApprovalEOF \/ \E choice \in Choices : ApprovalWith(choice)

\* the edit branch: the feedback is read and the draft refined
RefineWith(outcome) ==
    /\ pc = "refine"
    /\ refined_reply' = <<refine_reply(reply_data[1].body, CurEmail, outcome)>>
    /\ stages' = Append(stages, "refine")
    /\ pc' = "send_refined"
    /\ UNCHANGED <<callVars, schedVars, mailVars, reply_approval_required, passes, emails, cur,
                   started, failed, classification, reply_data, reply_sent>>

\* the input stream ends at the feedback prompt
RefineEOF ==
    /\ pc = "refine"
    /\ pc' = "except"
    /\ UNCHANGED <<callVars, schedVars, mailVars, reply_approval_required, passes, emails, cur,
                   started, failed, stages, classification, reply_data, refined_reply,
                   reply_sent>>

Refine == RefineEOF \/ \E outcome \in LLMOutcomes : RefineWith(outcome)

\* _send_reply
send_reply(email, reply) ==
    /\ stages' = Append(stages, "send")
    /\ IF WellFormed(reply)
       THEN \E success \in BOOLEAN :
              /\ outbox' = IF success
                           THEN Append(outbox, [to |-> email.from, subject |-> reply.subject,
                                                body |-> reply.body,
                                                thread_id |-> email.thread_id])
                           ELSE outbox
              /\ reply_sent' = success
              /\ pc' = AfterSend(success)
       ELSE /\ pc' = "except"
            /\ UNCHANGED <<outbox, reply_sent>>
    /\ UNCHANGED <<callVars, schedVars, unread, vstore, reply_approval_required, passes, emails, cur,
                   started, failed, classification, reply_data, refined_reply>>

\* approve, or auto-send without approval
Send == pc = "send" /\ send_reply(CurEmail, reply_data[1])

SendRefined == pc = "send_refined" /\ send_reply(CurEmail, refined_reply[1])

\* Step 7
ScheduleStep ==
    /\ pc = "schedule"
    /\ pc' = "index"
    /\ IF NeedsFollowUp(reply_sent, classification[1])
       THEN /\ stages' = Append(stages, "schedule")
            /\ \E drift \in 0..MaxDrift, saved \in SaveOutcomes :
                 schedule_follow_up(CurEmail.id, CurEmail, None, drift, saved, MaxNow)
       ELSE UNCHANGED <<schedVars, stages>>
    /\ UNCHANGED <<callVars, mailVars, reply_approval_required, passes, emails, cur, started,
                   failed, classification, reply_data, refined_reply, reply_sent>>

\* Step 8
IndexStep ==
    /\ pc = "index"
    /\ pc' = "log"
    /\ IF ShouldIndex(reply_sent, reply_data)
       THEN /\ stages' = Append(stages, "index")
            /\ \E ok \in BOOLEAN :
                 vstore' = add_email_pair(vstore, CurEmail.id, CurEmail.body,
                                          IndexedDocument(reply_data, refined_reply),
                                          [category |-> classification[1].category,
                                           priority |-> classification[1].priority,
                                           subject |-> CurEmail.subject], ok)
       ELSE UNCHANGED <<vstore, stages>>
    /\ UNCHANGED <<callVars, schedVars, unread, outbox, reply_approval_required, passes, emails, cur,
                   started, failed, classification, reply_data, refined_reply, reply_sent>>

\* Step 9
LogStep ==
    /\ pc = "log"
    /\ pc' = "mark"
    /\ stages' = Append(stages, "log")
    /\ UNCHANGED <<callVars, schedVars, mailVars, reply_approval_required, passes, emails, cur,
                   started, failed, classification, reply_data, refined_reply, reply_sent>>

\* Step 10: mark_as_read, which may fail and is not checked
MarkStep ==
    /\ pc = "mark"
    /\ pc' = "processed"
    /\ stages' = Append(stages, "mark")
    /\ \E ok \in BOOLEAN :
        unread' = IF ok THEN unread \ {emails[cur]} ELSE unread
    /\ UNCHANGED <<callVars, schedVars, outbox, vstore, reply_approval_required, passes, emails, cur,
                   started, failed, classification, reply_data, refined_reply, reply_sent>>

\* the pass returns and the loop moves on
FinishEmail ==
    /\ pc = "processed"
    /\ pc' = LoopNext.pc
    /\ cur' = LoopNext.cur
    /\ ClearLocals
    /\ UNCHANGED <<callVars, schedVars, mailVars, reply_approval_required, passes, emails, started,
                   failed>>

\* the except clause of process_emails
HandleException ==
    /\ pc = "except"
    /\ failed' = Append(failed, emails[cur])
    /\ pc' = Caught.pc
    /\ cur' = Caught.cur
    /\ ClearLocals
    /\ UNCHANGED <<callVars, schedVars, mailVars, reply_approval_required, passes, emails, started>>

Next ==
    \/ ProcessEmailsStart
    \/ Classify
    \/ Summarize
    \/ Respond
    \/ Approval
    \/ Refine
    \/ Send
    \/ SendRefined
    \/ ScheduleStep
    \/ IndexStep
    \/ LogStep
    \/ MarkStep
    \/ FinishEmail
    \/ HandleException

Spec == Init /\ [][Next]_vars

\* ------------------------------------------------------------ menu of main
\* check_follow_ups up to the first prompt of its loop (main.py:206-214):
\* the due records are listed once, before anything is asked
CheckFollowUpsStart ==
    /\ pc = "menu"
    /\ due_follow_ups' = get_due_follow_ups(follow_ups, now)
    /\ pc' = IF get_due_follow_ups(follow_ups, now) = <<>> THEN "menu" ELSE "follow_up"
    /\ UNCHANGED <<schedVars, mailVars, reply_approval_required, passes, emails, cur,
                   started, failed, passVars, last_search, similar_responses, payload,
                   body>>

\* one line read at the prompt of main.py:219, stripped and lowered, and the
\* branch taken on it; the loop then moves to the next due record
FollowUpPromptWith(choice) ==
    /\ pc = "follow_up"
    /\ IF choice = "y"
       THEN \E saved \in SaveOutcomes :
              mark_completed(Head(due_follow_ups).email_id, saved)
       ELSE UNCHANGED schedVars
    /\ due_follow_ups' = Tail(due_follow_ups)
    /\ pc' = IF Tail(due_follow_ups) = <<>> THEN "menu" ELSE "follow_up"
    /\ UNCHANGED <<mailVars, reply_approval_required, passes, emails, cur, started,
                   failed, passVars, last_search, similar_responses, payload, body>>

\* the input stream ends at the prompt: EOFError leaves check_follow_ups and
\* main, and the process ends
FollowUpEOF ==
    /\ pc = "follow_up"
    /\ pc' = "exit"
    /\ due_follow_ups' = <<>>
    /\ UNCHANGED <<schedVars, mailVars, reply_approval_required, passes, emails, cur,
                   started, failed, passVars, last_search, similar_responses, payload,
                   body>>

FollowUpPrompt == FollowUpEOF \/ \E choice \in Choices : FollowUpPromptWith(choice)

\* the longest the clock runs in the runs that wait for a follow-up
WaitMaxNow == timedelta(follow_up_days) + MaxDrift

\* time passes between two calls: the sleep of run_continuous, or the menu of
\* main waiting for the next choice, long enough for a follow-up to fall due
Wait ==
    /\ pc = "menu"
    /\ now + timedelta(follow_up_days) <= WaitMaxNow
    /\ now' = now + timedelta(follow_up_days)
    /\ UNCHANGED <<follow_ups, disk, save_faults, mailVars, runVars, passVars, callVars>>

\* the calls main makes from its menu, in any order; run_continuous makes
\* the same calls in the order process_emails, check_follow_ups, sleep
CyclesNext == Next \/ CheckFollowUpsStart \/ FollowUpPrompt \/ Wait

SpecCycles == Init /\ [][CyclesNext]_vars

\* =============================================================== properties
SeqToSet(q) == {q[i] : i \in 1..Len(q)}

\* order of two ISO timestamps, date first and then time of day
IsoLeq(a, b) == a[1] < b[1] \/ (a[1] = b[1] /\ a[2] <= b[2])

\* the clock values a due-list query is tried at
QueryTimes == (0 - TicksPerDay)..(SchedMaxNow + (follow_up_days + 1) * TicksPerDay)

DaysValue(days) == IF days = None THEN follow_up_days ELSE days[1]

RecordFields == {"email_id", "subject", "from", "follow_up_date", "created_at", "status"}

\* C1: at every query time get_due_follow_ups returns exactly the records
\* that are pending and whose follow_up_date is not after the query time, each
\* once; it never returns a completed record or one that is not in the store.
C1_DueExactlyPendingPast ==
    \A t \in QueryTimes :
        LET due == get_due_follow_ups(follow_ups, t)
            expected == {i \in 1..Len(follow_ups) :
                            /\ follow_ups[i][2].status = "pending"
                            /\ IsoLeq(follow_ups[i][2].follow_up_date, isoformat(t))}
        IN  /\ Len(due) = Cardinality(expected)
            /\ \A i \in expected : \E j \in 1..Len(due) : due[j] = follow_ups[i][2]
            /\ \A j \in 1..Len(due) :
                 /\ due[j].status # "completed"
                 /\ \E i \in expected : due[j] = follow_ups[i][2]

\* a completed record whose date has passed sits next to a pending due one
W_C1 ==
    \E i, j \in 1..Len(follow_ups) :
        /\ follow_ups[i][2].status = "completed"
        /\ fromisoformat(follow_ups[i][2].follow_up_date) <= now
        /\ follow_ups[j][2].status = "pending"
        /\ fromisoformat(follow_ups[j][2].follow_up_date) = now
        /\ now > 0

\* C2: the scheduling step of a pass creates a fresh pending follow-up for
\* the email exactly when no reply was sent in the pass and the priority is
\* high or medium; otherwise, and at every other step of the pipeline, the
\* follow-up store is left as it is.
C2_FollowUpIffNoReply ==
    [][IF pc = "schedule"
       THEN LET id == emails[cur]
                wanted == /\ ~(reply_sent /\ "send" \in SeqToSet(stages))
                          /\ classification[1].priority \in {"high", "medium"}
            IN  IF wanted
                THEN /\ DictHas(follow_ups', id)
                     /\ DictGet(follow_ups', id).status = "pending"
                     /\ DictGet(follow_ups', id).created_at = isoformat(now')
                     /\ "schedule" \in SeqToSet(stages')
                ELSE /\ follow_ups' = follow_ups
                     /\ "schedule" \notin SeqToSet(stages')
       ELSE follow_ups' = follow_ups]_vars

\* a follow-up was created for a medium-priority email whose send failed
W_C2 ==
    /\ pc = "index"
    /\ "send" \in SeqToSet(stages)
    /\ "schedule" \in SeqToSet(stages)
    /\ classification[1].priority = "medium"
    /\ DictHas(follow_ups, emails[cur])

\* C3: the vector store changes only at the indexing step of a pass in
\* which a reply to that email was sent successfully, and only by gaining an
\* entry for that email.
C3_IndexOnlyAfterSend ==
    [][vstore' # vstore =>
         /\ pc = "index"
         /\ reply_sent
         /\ "send" \in SeqToSet(stages)
         /\ Len(outbox) > 0
         /\ outbox[Len(outbox)].thread_id = CurEmail.thread_id
         /\ DictKeys(vstore') = DictKeys(vstore) \cup {emails[cur]}
         /\ \A k \in DictKeys(vstore) : DictGet(vstore', k) = DictGet(vstore, k)]_vars

\* both emails of a batch were replied to and indexed
W_C3 == Len(vstore) = 2 /\ Len(outbox) = 2

\* C4: the document indexed for an email is the text of a reply that was
\* sent for that email.
C4_DocumentIsSentText ==
    \A id \in DictKeys(vstore) :
        \E i \in 1..Len(outbox) :
            /\ outbox[i].thread_id = Email(id).thread_id
            /\ outbox[i].body = DictGet(vstore, id).document

StageRank(stage) ==
    CASE stage = "classify" -> 1
      [] stage = "summarize" -> 2
      [] stage = "draft" -> 3
      [] stage = "approval" -> 4
      [] stage = "refine" -> 5
      [] stage = "send" -> 6
      [] stage = "schedule" -> 7
      [] stage = "index" -> 8
      [] stage = "log" -> 9
      [] stage = "mark" -> 10

\* C5: the stages of a pass occur in pipeline order, each at most once,
\* beginning with classify and then summarize; an approval decision and a send
\* come only after a draft, and mark-read only directly after logging.
C5_StagesLinear ==
    /\ \A i \in 1..(Len(stages) - 1) : StageRank(stages[i]) < StageRank(stages[i + 1])
    /\ Len(stages) >= 1 => stages[1] = "classify"
    /\ Len(stages) >= 2 => stages[2] = "summarize"
    /\ \A i \in 1..Len(stages) :
         /\ stages[i] \in {"approval", "send"} => "draft" \in SeqToSet(stages)
         /\ stages[i] = "mark" => i > 1 /\ stages[i - 1] = "log"

\* a pass that went through every stage of the edit path
W_C5 ==
    /\ pc = "processed"
    /\ stages = <<"classify", "summarize", "draft", "approval", "refine", "send",
                  "index", "log", "mark">>

\* C6: the emails of a batch are started once each in batch order, an
\* exception in one pass is logged and does not stop the loop, and the run ends
\* at the menu with every email of the batch started.
C6_ExceptionsIsolated ==
    /\ pc # "crashed"
    /\ Len(started) <= Len(emails)
    /\ \A i \in 1..Len(started) : started[i] = emails[i]
    /\ \A i \in 1..Len(failed) : failed[i] \in SeqToSet(started)
    /\ pc = "menu" => started = emails

\* a run of two emails ended after the first one raised and the second did not
W_C6 ==
    /\ pc = "menu"
    /\ Len(emails) = 2
    /\ started = emails
    /\ failed = <<emails[1]>>

\* C7: mark_completed on a present id sets its status to completed and
\* stamps completed_at with the current time, after which no due list contains
\* the id; on an absent id the store and its file stay as they are; every
\* other record is unchanged.
C7_MarkCompletedFrame ==
    [][\A id \in EmailIds, saved \in SaveResults :
         mark_completed(id, saved) =>
           IF DictHas(follow_ups, id)
           THEN /\ DictHas(follow_ups', id)
                /\ DictGet(follow_ups', id).status = "completed"
                /\ "completed_at" \in DOMAIN DictGet(follow_ups', id)
                /\ DictGet(follow_ups', id).completed_at = isoformat(now)
                /\ \A f \in RecordFields \ {"status"} :
                     DictGet(follow_ups', id)[f] = DictGet(follow_ups, id)[f]
                /\ \A t \in QueryTimes :
                     \A j \in 1..Len(get_due_follow_ups(follow_ups', t)) :
                        get_due_follow_ups(follow_ups', t)[j].email_id # id
                /\ Len(follow_ups') = Len(follow_ups)
                /\ \A i \in 1..Len(follow_ups) :
                     follow_ups[i][1] # id => follow_ups'[i] = follow_ups[i]
           ELSE follow_ups' = follow_ups /\ disk' = disk]_vars

\* a record was completed after its due date had passed, next to a pending one
W_C7 ==
    \E i, j \in 1..Len(follow_ups) :
        /\ follow_ups[i][2].status = "completed"
        /\ fromisoformat(follow_ups[i][2].follow_up_date)
             < fromisoformat(follow_ups[i][2].completed_at)
        /\ follow_ups[j][2].status = "pending"

UniqueKeys(d) == \A i, j \in 1..Len(d) : i # j => d[i][1] # d[j][1]

\* C8: the store never holds two records for one email_id, and after
\* schedule_follow_up the id's record is exactly the fresh pending record of
\* this call, with no completed_at and nothing else of a prior record.
C8_OneRecordPerId ==
    [][/\ UniqueKeys(follow_ups')
       /\ \A e \in Emails, days \in DaysUntil, drift \in 0..MaxDrift, saved \in SaveResults :
            schedule_follow_up(e.id, e, days, drift, saved, SchedMaxNow) =>
              /\ Cardinality({i \in 1..Len(follow_ups') : follow_ups'[i][1] = e.id}) = 1
              /\ DictGet(follow_ups', e.id) =
                   [email_id |-> e.id, subject |-> e.subject, from |-> e.from,
                    follow_up_date |-> isoformat(now + DaysValue(days) * TicksPerDay),
                    created_at |-> isoformat(now'),
                    status |-> "pending"]
              /\ \A i \in 1..Len(follow_ups) :
                   follow_ups[i][1] # e.id => follow_ups'[i] = follow_ups[i]]_vars

\* the first record of the store was written after the second one, over a
\* record that held the first position, while the second is completed
W_C8 ==
    /\ Len(follow_ups) = 2
    /\ follow_ups[1][2].status = "pending"
    /\ follow_ups[2][2].status = "completed"
    /\ fromisoformat(follow_ups[1][2].created_at)
         > fromisoformat(follow_ups[2][2].completed_at)

\* C9: the record written by schedule_follow_up has follow_up_date equal to
\* its created_at plus exactly days_until days.
C9_DueDateIsCreationPlusDays ==
    [][\A e \in Emails, days \in DaysUntil, drift \in 0..MaxDrift, saved \in SaveResults :
         schedule_follow_up(e.id, e, days, drift, saved, SchedMaxNow) =>
           fromisoformat(DictGet(follow_ups', e.id).follow_up_date) =
             fromisoformat(DictGet(follow_ups', e.id).created_at)
               + DaysValue(days) * TicksPerDay]_vars

\* C10: with one follow-up scheduled at clock 0 for the default three days,
\* the due list is empty before day 3, holds exactly that record from day 3 on
\* while it is pending, and is empty again once it is completed, when the
\* statistics count one completed record.
C10_ThreeDayScenario ==
    /\ Len(follow_ups) <= 1
    /\ Len(follow_ups) = 1 =>
         LET r == follow_ups[1][2]
             due == get_due_follow_ups(follow_ups, now)
             day3 == 3 * TicksPerDay
         IN  /\ (r.status = "pending" /\ now < day3) => due = <<>>
             /\ (r.status = "pending" /\ now >= day3) => due = <<r>>
             /\ r.status = "completed" =>
                  /\ due = <<>>
                  /\ get_follow_up_stats(follow_ups).completed = 1
                  /\ get_follow_up_stats(follow_ups).pending = 0

\* the follow-up was completed after it had come due on day 3
W_C10 ==
    /\ Len(follow_ups) = 1
    /\ follow_ups[1][2].status = "completed"
    /\ fromisoformat(follow_ups[1][2].completed_at) >= 3 * TicksPerDay
    /\ now > 3 * TicksPerDay

\* C11: cancel_follow_up on a present id removes that id's record, so that
\* the store, every due list and the statistics no longer have it, and leaves
\* every other record as it was and in place; on an absent id the store and
\* its file stay as they are.
C11_CancelFrame ==
    [][\A id \in EmailIds, saved \in SaveResults :
         cancel_follow_up(id, saved) =>
           IF DictHas(follow_ups, id)
           THEN LET old == DictGet(follow_ups, id)
                    before == get_follow_up_stats(follow_ups)
                    after == get_follow_up_stats(follow_ups')
                IN  /\ ~DictHas(follow_ups', id)
                    /\ Len(follow_ups') = Len(follow_ups) - 1
                    /\ \A k \in DictKeys(follow_ups) \ {id} :
                         /\ DictHas(follow_ups', k)
                         /\ DictGet(follow_ups', k) = DictGet(follow_ups, k)
                    /\ \A i, j \in 1..Len(follow_ups') :
                         i < j => \E a, b \in 1..Len(follow_ups) :
                                    /\ a < b
                                    /\ follow_ups[a] = follow_ups'[i]
                                    /\ follow_ups[b] = follow_ups'[j]
                    /\ \A t \in QueryTimes :
                         \A j \in 1..Len(get_due_follow_ups(follow_ups', t)) :
                            get_due_follow_ups(follow_ups', t)[j].email_id # id
                    /\ after.total = before.total - 1
                    /\ after.pending =
                         before.pending - (IF old.status = "pending" THEN 1 ELSE 0)
                    /\ after.completed =
                         before.completed - (IF old.status = "completed" THEN 1 ELSE 0)
           ELSE follow_ups' = follow_ups /\ disk' = disk]_vars

\* the first email's record was cancelled while the second one's stayed: the
\* file, whose rewrite failed, still lists both
W_C11 ==
    /\ disk # <<>>
    /\ DictHas(disk[1], "e1")
    /\ DictHas(disk[1], "e2")
    /\ ~DictHas(follow_ups, "e1")
    /\ DictHas(follow_ups, "e2")
    /\ DictGet(follow_ups, "e2") = DictGet(disk[1], "e2")

\* C12: in every store state the statistics give total = the number of
\* records, pending and completed = the number of records with that status,
\* total = pending + completed, and completion_rate = completed / total * 100,
\* or 0 when the store is empty.
C12_StatsCounts ==
    LET st == get_follow_up_stats(follow_ups)
        keys == DictKeys(follow_ups)
        withStatus(x) == {k \in keys : DictGet(follow_ups, k).status = x}
    IN  /\ st.total = Cardinality(keys)
        /\ st.pending = Cardinality(withStatus("pending"))
        /\ st.completed = Cardinality(withStatus("completed"))
        /\ st.total = st.pending + st.completed
        /\ st.completion_rate[2] > 0
        /\ st.total > 0 =>
             st.completion_rate[1] * st.total = st.completed * 100 * st.completion_rate[2]
        /\ st.total = 0 =>
             /\ st.pending = 0
             /\ st.completed = 0
             /\ st.completion_rate[1] = 0

\* one record of two is completed: a completion rate of 50
W_C12 ==
    /\ Len(follow_ups) = 2
    /\ get_follow_up_stats(follow_ups).completed = 1
    /\ get_follow_up_stats(follow_ups).pending = 1
    /\ get_follow_up_stats(follow_ups).completion_rate = <<100, 2>>

\* the saves that fail
FailedSaves == SaveResults \ {"written"}

FailedCalls == {"unparsable", "error"}

\* C13: when the generation call of draft_reply raises or its answer does
\* not parse, the draft is the fixed fallback reply (subject Re: + the original
\* subject, the static acknowledgement, tone professional, confidence below
\* 0.5), no exception leaves the step, and the pass goes on to the approval
\* prompt, or to the send when no approval is required, where that reply is the
\* one sent.
C13_DraftFallback ==
    [][/\ \A outcome \in FailedCalls :
            (/\ pc = "respond"
             /\ should_auto_respond(classification[1])
             /\ RespondWith(TRUE, outcome)) =>
              /\ reply_data' =
                   <<[subject |-> <<"Re: ", CurEmail.subject>>,
                      body |-> "Thank you for your email. I will review and get back to you shortly.",
                      tone |-> "professional",
                      confidence |-> 3]>>
              /\ reply_data'[1].confidence < 5
              /\ pc' = IF reply_approval_required THEN "approval" ELSE "send"
       /\ (Send /\ reply_sent') =>
            /\ Len(outbox') = Len(outbox) + 1
            /\ outbox'[Len(outbox')].body = reply_data[1].body
            /\ outbox'[Len(outbox')].subject = reply_data[1].subject]_vars

\* the fallback acknowledgement was approved and sent
W_C13 ==
    /\ reply_sent
    /\ "approval" \in SeqToSet(stages)
    /\ "refine" \notin SeqToSet(stages)
    /\ reply_data # None
    /\ reply_data[1].confidence = 3
    /\ outbox[Len(outbox)].body
         = "Thank you for your email. I will review and get back to you shortly."

\* C14: when the generation call of refine_reply fails, the refined reply
\* carries exactly the body of the original draft and no exception leaves the
\* step, and the text sent on the edit path is the body of the refined reply,
\* hence the original draft.
C14_RefineFallback ==
    [][/\ \A outcome \in FailedCalls :
            RefineWith(outcome) =>
              /\ refined_reply' # None
              /\ refined_reply'[1].body = reply_data[1].body
              /\ pc' = "send_refined"
       /\ (SendRefined /\ reply_sent') =>
            /\ Len(outbox') = Len(outbox) + 1
            /\ outbox'[Len(outbox')].body = refined_reply[1].body]_vars

\* the refinement failed and the generated draft went out unchanged
W_C14 ==
    /\ reply_sent
    /\ "refine" \in SeqToSet(stages)
    /\ refined_reply # None
    /\ refined_reply[1].confidence = 5
    /\ reply_data[1].body = "draft"
    /\ outbox[Len(outbox)].body = "draft"

\* C16: while the approval prompt waits nothing is sent, scheduled,
\* indexed, logged or marked read and no other email is taken up; the inputs
\* 1, 2 and 3 give approve, edit and skip, every other line leaves the whole
\* state as it is and the prompt waiting, and the prompt is left for a send, a
\* refinement or a skip only on one of those three inputs.
C16_ApprovalClosedSet ==
    [][pc = "approval" =>
         /\ UNCHANGED <<schedVars, mailVars>>
         /\ UNCHANGED <<emails, cur, started, failed, passes, classification,
                        reply_data, refined_reply, reply_sent>>
         /\ stages' \in {stages, Append(stages, "approval")}
         /\ pc' \in {"approval", "send", "refine", "schedule", "except"}
         /\ \A choice \in Choices :
              ApprovalWith(choice) =>
                CASE choice = "1" -> pc' = "send"
                  [] choice = "2" -> pc' = "refine"
                  [] choice = "3" -> pc' = "schedule"
                  [] OTHER -> UNCHANGED vars
         /\ pc' \in {"send", "refine", "schedule"} =>
              /\ stages' = Append(stages, "approval")
              /\ \E choice \in {"1", "2", "3"} : ApprovalWith(choice)]_vars

\* the user skipped the drafted reply
W_C16 ==
    /\ pc = "schedule"
    /\ stages = <<"classify", "summarize", "draft", "approval">>
    /\ ~reply_sent

\* the numbers of results a search is tried with
NResults == (0 - 1)..(MaxResults + 1)

Sorted(hits) == \A i, j \in 1..Len(hits) : i < j => hits[i].distance <= hits[j].distance

\* C17: for every query text and every number of results,
\* search_similar_responses returns a list, and the empty list when the index
\* is empty or when encode or the query raises.
C17_SearchNeverRaises ==
    /\ last_search = None =>
         \A query_text \in QueryTexts, n_results \in NResults, fault \in SearchFaults :
            LET results == search_similar_responses(vstore, query_text, n_results, fault)
            IN  /\ results # {}
                /\ (vstore = <<>> \/ fault # "none") => results = {<<>>}
    /\ (last_search # None /\ (vstore = <<>> \/ last_search[1].fault # "none")) =>
         similar_responses = <<>>

\* a search of an index with entries came back empty because encode raised
W_C17 ==
    /\ last_search # None
    /\ last_search[1].fault = "encode"
    /\ last_search[1].n_results > 0
    /\ Len(vstore) > 1
    /\ similar_responses = <<>>

\* C18: for every store and every number of results k a search returns at
\* most k hits and at most as many as the store has records, each the response,
\* distance and metadata of a record, in ascending order of distance; the
\* search made for a draft, with k = 3, returns at most 3.
C18_AtMostKClosestFirst ==
    /\ last_search = None =>
         \A query_text \in QueryTexts, n_results \in NResults :
            \A hits \in search_similar_responses(vstore, query_text, n_results, "none") :
               /\ n_results >= 0 => Len(hits) <= n_results
               /\ n_results < 0 => hits = <<>>
               /\ Len(hits) <= Len(vstore)
               /\ Sorted(hits)
               /\ \A i \in 1..Len(hits) :
                    \E e \in 1..Len(vstore) :
                       /\ hits[i].response = vstore[e][2].document
                       /\ hits[i].metadata = vstore[e][2].metadata
                       /\ hits[i].distance
                            = distance(vstore[e][2].embedding, <<"vec", query_text>>)
    /\ last_search # None =>
         /\ Len(similar_responses) <= last_search[1].n_results
         /\ Len(similar_responses) <= Len(vstore)
         /\ Sorted(similar_responses)
         /\ last_search[1].n_results = 3 => Len(similar_responses) <= 3

\* a draft's search of four records returned three, the closest first and a
\* farther one last
W_C18 ==
    /\ Len(vstore) = 4
    /\ last_search # None
    /\ last_search[1].n_results = 3
    /\ Len(similar_responses) = 3
    /\ similar_responses[1].distance < similar_responses[3].distance

Rival(store, text, response) ==
    \E e \in 1..Len(store) :
        /\ store[e][2].embedding = <<"vec", text>>
        /\ store[e][2].document # response

C20_BodyExtraction ==
    body # None =>
      LET p == payload[1]
      IN  IF "parts" \in DOMAIN p
          THEN LET plain == {i \in 1..Len(p.parts) :
                               /\ p.parts[i].mimeType = "text/plain"
                               /\ "data" \in DOMAIN p.parts[i].body}
                   first == CHOOSE i \in plain : \A j \in plain : i <= j
               IN  /\ plain # {} => urlsafe_b64encode(body[1]) = p.parts[first].body.data
                   /\ (\A i \in 1..Len(p.parts) : p.parts[i].mimeType = "text/html") =>
                        body[1] = ""
          ELSE IF p.mimeType = "text/html"
               THEN body[1] = ""
               ELSE "data" \in DOMAIN p.body => urlsafe_b64encode(body[1]) = p.body.data

\* the replies the mail provider accepted for the email id
RepliesTo(id) ==
    {i \in 1..Len(outbox) : /\ outbox[i].to = Email(id).from
                            /\ outbox[i].thread_id = Email(id).thread_id}

\* C21: whatever the number of processing cycles, and whether or not
\* mark-as-read fails or a later stage raises, each inbound email is replied
\* to at most once: the mail provider never holds two accepted replies for
\* one email id.
C21_RepliedAtMostOnce ==
    \A id \in EmailIds : Cardinality(RepliesTo(id)) <= 1

\* C22: in every reachable state an email id with a pending follow-up record
\* is an email for which no reply has been sent, also when the reply went out
\* in a later cycle that fetched the email again.
C22_PendingMeansUnreplied ==
    \A i \in 1..Len(follow_ups) :
        follow_ups[i][2].status = "pending" => RepliesTo(follow_ups[i][1]) = {}

\* the classifications that are never answered
Unanswered(c) ==
    c.category \in {"spam", "promotional", "newsletter"} \/ c.priority = "low"

\* the positions of a pass after the send branch
PastSend == {"schedule", "index", "log", "mark", "processed", "except"}

\* C23: no reply is drafted or sent for an email classified as spam,
\* promotional or newsletter, or with priority low; when approval is required
\* and the user chooses skip the pass goes on to the follow-up step, from where
\* nothing is sent any more; and one pass over one email attempts at most one
\* send, which hands the mail provider at most one message.
C23_NoReplyWhenExcludedOrSkipped ==
    [][/\ stages' = Append(stages, "draft") => ~Unanswered(classification[1])
       /\ stages' = Append(stages, "send") =>
            /\ ~Unanswered(classification[1])
            /\ \A i \in 1..Len(stages) : stages[i] # "send"
       /\ outbox' # outbox =>
            /\ stages' = Append(stages, "send")
            /\ Len(outbox') = Len(outbox) + 1
       /\ (reply_approval_required /\ ApprovalWith("3")) =>
            /\ pc' = "schedule"
            /\ \A i \in 1..Len(stages') : stages'[i] # "send"
       /\ pc \in PastSend =>
            /\ outbox' = outbox
            /\ stages' # Append(stages, "send")
            /\ pc' \in PastSend \cup {"classify", "menu"}]_vars

\* a pass over an email classified as spam with high priority has ended: a
\* follow-up was scheduled, nothing was drafted and nothing was sent
W_C23 ==
    /\ pc = "processed"
    /\ classification = <<[category |-> "spam", priority |-> "high"]>>
    /\ stages = <<"classify", "summarize", "schedule", "log", "mark">>
    /\ outbox = <<>>

\* C24: starting from an empty store, after any sequence of schedule,
\* complete and cancel operations every record has status pending or
\* completed, and carries completed_at if and only if its status is completed.
C24_CompletedAtIffCompleted ==
    \A i \in 1..Len(follow_ups) :
        LET follow_up == follow_ups[i][2]
        IN  /\ follow_up.status \in {"pending", "completed"}
            /\ "completed_at" \in DOMAIN follow_up <=> follow_up.status = "completed"

\* one record was completed after the clock had advanced and another one is
\* still pending
W_C24 ==
    /\ Len(follow_ups) = 2
    /\ follow_ups[1][2].status = "completed"
    /\ follow_ups[1][2].completed_at = isoformat(SchedMaxNow)
    /\ follow_ups[2][2].status = "pending"
    /\ "completed_at" \notin DOMAIN follow_ups[2][2]

====
